---- MODULE Spec2Model ----
(***************************************************************************)
(* The asynchronous ingestion job pipeline of the document service:        *)
(*   - the job store (app/services/queue_manager.py, QueueManager on Redis) *)
(*   - the single-document task (app/workers/tasks.py,                      *)
(*     process_document_task) with Celery's bounded retry                   *)
(*   - the batch task (process_batch_embedding_task)                        *)
(*   - the submission route (app/api/routes.py, start_embedding)            *)
(*                                                                         *)
(* Optional values (Python None) are sequences of length at most one:      *)
(* None is <<>> and a present value x is <<x>>.  Text (file names, error   *)
(* messages) is a sequence of words, so that the substring tests of the    *)
(* code become tests on the words of the text.                             *)
(***************************************************************************)
EXTENDS Integers, Sequences, FiniteSets, TLC

VARIABLES
  redis,      \* the Redis database: key -> [value, expire_at]
  now,        \* the clock (datetime.utcnow / Redis time), in ticks
  disk,       \* the paths that exist in the upload directory
  content,    \* what each uploaded file holds (decides text extraction)
  nextJob,    \* number of job ids allocated so far (uuid4 is fresh each time)
  broker,     \* Celery messages waiting for a worker
  w,          \* the worker's running process_document_task
  b,          \* the worker's running process_batch_embedding_task
  chroma,     \* the vector store: ids of the chunks added, per call
  embedFaults,\* how many calls of the embedding provider fail before one succeeds
  embedCalls, \* how many calls the embedding provider has received
  faultKind,  \* the failure the embedding provider produces
  removes,    \* history: number of os.remove calls per path
  runlog,     \* history: outcome of every finished task execution, per job
  percents,   \* history: the progress percentages written to the record, per job
  writers,    \* concurrent store clients between their GET and their SETEX
  lastCall,   \* history: the last call made on the job store and its result
  calls       \* history: per job id, the number of updates clients made to its record

vars == <<redis, now, disk, content, nextJob, broker, w, b, chroma, embedFaults,
          embedCalls, faultKind, removes, runlog, percents, writers, lastCall, calls>>

----------------------------------------------------------------------------
(* Bounds of the model *)

MaxJobs == 1
MaxTime == 2
MaxFiles == 2
MaxCalls == 3
MaxFaults == 2

(* Program constants *)

\* settings.job_ttl, in ticks of the model's clock (86400 s in config.py)
JobTTL == 2
\* @celery_app.task(bind=True, max_retries=3)
MaxRetries == 3
\* self.retry(exc=e, countdown=60)
RetryCountdown == 60

----------------------------------------------------------------------------
(* Optional values *)

None == <<>>
Some(x) == <<x>>
IsNone(o) == o = <<>>
Val(o) == o[1]

(* Text *)

Lower(word) ==
  CASE word = "OpenAI" -> "openai"
    [] word = "Timeout" -> "timeout"
    [] word = "Lecture" -> "lecture"
    [] OTHER -> word

HasWord(text, word) == \E i \in 1..Len(text) : text[i] = word
HasWordLower(text, word) == \E i \in 1..Len(text) : Lower(text[i]) = word

----------------------------------------------------------------------------
(* app/models/job.py *)

QUEUED == "queued"
PROCESSING == "processing"
COMPLETED == "completed"
FAILED == "failed"
PARTIALLY_COMPLETED == "partially_completed"

JobStatus == {QUEUED, PROCESSING, COMPLETED, FAILED, PARTIALLY_COMPLETED}
Terminal == {COMPLETED, FAILED, PARTIALLY_COMPLETED}

\* BatchInfo.successful_files and BatchInfo.failed_files
successful_files(batch) ==
  Cardinality({i \in 1..Len(batch.files) : batch.files[i].status = "completed"})

failed_files(batch) ==
  Cardinality({i \in 1..Len(batch.files) : batch.files[i].status = "failed"})

----------------------------------------------------------------------------
(* Redis, as the job store uses it: GET, SETEX, DELETE on string keys.      *)
(* A key whose time to live has elapsed is gone (see Tick).                 *)

redis_get(db, key) ==
  IF key \in DOMAIN db THEN Some(db[key].value) ELSE None

redis_setex_KeepExpiry(db, t, key, ttl, value) ==
  [k \in DOMAIN db \cup {key} |->
     IF k = key
     THEN [value |-> value,
           expire_at |-> IF key \in DOMAIN db THEN db[key].expire_at ELSE t + ttl]
     ELSE db[k]]

redis_setex(db, t, key, ttl, value) ==
  [k \in DOMAIN db \cup {key} |->
     IF k = key THEN [value |-> value, expire_at |-> t + ttl] ELSE db[k]]

redis_delete(db, key) ==
  [db |-> [k \in DOMAIN db \ {key} |-> db[k]],
   n |-> IF key \in DOMAIN db THEN 1 ELSE 0]

\* datetime.isoformat() and datetime.fromisoformat()
isoformat(t) == <<"iso", t>>
fromisoformat(s) == s[2]

----------------------------------------------------------------------------
(* app/services/queue_manager.py *)

get_job_key(job_id) == <<"job", job_id>>

JobData_WithProgress(job_id, file_name, file_type, file_path, collection_name, t) ==
  [job_id |-> job_id,
   status |-> QUEUED,
   file_name |-> file_name,
   file_type |-> file_type,
   file_path |-> Some(file_path),
   file_paths |-> None,
   collection_name |-> collection_name,
   created_at |-> isoformat(t),
   started_at |-> None,
   completed_at |-> None,
   progress |-> Some([current_step |-> "queued", percentage |-> 0,
                      chunks_processed |-> 0, total_chunks |-> 0]),
   metadata |-> None,
   error |-> None,
   is_batch |-> None,
   batch |-> None]

\* The record create_job writes (job_data, lines 52-65).
JobData(job_id, file_name, file_type, file_path, collection_name, t) ==
  [job_id |-> job_id,
   status |-> QUEUED,
   file_name |-> file_name,
   file_type |-> file_type,
   file_path |-> Some(file_path),
   file_paths |-> None,
   collection_name |-> collection_name,
   created_at |-> isoformat(t),
   started_at |-> None,
   completed_at |-> None,
   progress |-> None,
   metadata |-> None,
   error |-> None,
   is_batch |-> None,
   batch |-> None]

create_job(db, t, job_id, file_name, file_type, file_path, collection_name) ==
  redis_setex(db, t, get_job_key(job_id), JobTTL,
              JobData(job_id, file_name, file_type, file_path,
                      collection_name, t))

\* The record create_batch_job writes (lines 255-286).
BatchJobData(job_id, files, collection_name, t) ==
  [job_id |-> job_id,
   status |-> QUEUED,
   file_name |-> <<"batch", ToString(Len(files)), "files">>,
   file_type |-> "batch",
   file_path |-> None,
   file_paths |-> Some([i \in 1..Len(files) |-> files[i].path]),
   collection_name |-> collection_name,
   created_at |-> isoformat(t),
   started_at |-> None,
   completed_at |-> None,
   progress |-> None,
   metadata |-> None,
   error |-> None,
   is_batch |-> Some(TRUE),
   batch |-> Some([total_files |-> Len(files),
                   processed_files |-> 0,
                   current_file |-> None,
                   overall_progress |-> [num |-> 0, den |-> 1],
                   files |-> [i \in 1..Len(files) |->
                                [name |-> files[i].name,
                                 status |-> "pending",
                                 chunks |-> 0,
                                 error |-> None]]])]

create_batch_job(db, t, job_id, files, collection_name) ==
  redis_setex(db, t, get_job_key(job_id), JobTTL,
              BatchJobData(job_id, files, collection_name, t))

\* JobMetadata(**metadata): the three declared fields; pydantic drops the rest.
JobMetadata(m) ==
  [chunks_count |-> m.chunks_count,
   text_length |-> m.text_length,
   processing_time_seconds |-> m.processing_time_seconds]

JobOf_KeepsPaths(job_dict) ==
  [job_id |-> job_dict.job_id,
   status |-> job_dict.status,
   file_name |-> job_dict.file_name,
   file_type |-> job_dict.file_type,
   file_path |-> job_dict.file_path,
   file_paths |-> job_dict.file_paths,
   collection_name |-> job_dict.collection_name,
   created_at |-> fromisoformat(job_dict.created_at),
   started_at |-> IF job_dict.started_at # None
                  THEN Some(fromisoformat(job_dict.started_at)) ELSE None,
   completed_at |-> IF job_dict.completed_at # None
                    THEN Some(fromisoformat(job_dict.completed_at)) ELSE None,
   progress |-> job_dict.progress,
   metadata |-> IF job_dict.metadata # None
                THEN Some(JobMetadata(Val(job_dict.metadata))) ELSE None,
   error |-> job_dict.error,
   is_batch |-> job_dict.is_batch = Some(TRUE),
   batch |-> job_dict.batch]

\* What get_job builds from the stored record (lines 93-121): timestamps
\* parsed, sub-objects typed, file_path and file_paths removed.
JobOf(job_dict) ==
  [job_id |-> job_dict.job_id,
   status |-> job_dict.status,
   file_name |-> job_dict.file_name,
   file_type |-> job_dict.file_type,
   collection_name |-> job_dict.collection_name,
   created_at |-> fromisoformat(job_dict.created_at),
   started_at |-> IF job_dict.started_at # None
                  THEN Some(fromisoformat(job_dict.started_at)) ELSE None,
   completed_at |-> IF job_dict.completed_at # None
                    THEN Some(fromisoformat(job_dict.completed_at)) ELSE None,
   progress |-> job_dict.progress,
   metadata |-> IF job_dict.metadata # None
                THEN Some(JobMetadata(Val(job_dict.metadata))) ELSE None,
   error |-> job_dict.error,
   is_batch |-> job_dict.is_batch = Some(TRUE),
   batch |-> job_dict.batch]

get_job(db, job_id) ==
  LET data == redis_get(db, get_job_key(job_id))
  IN IF IsNone(data) THEN None ELSE Some(JobOf(Val(data)))

StatusWritten_KeepsStatus(job_data, status, started_at, completed_at, error, metadata) ==
  [job_data EXCEPT
     !.started_at = IF started_at # None THEN isoformat(Val(started_at)) ELSE @,
     !.completed_at = IF completed_at # None THEN isoformat(Val(completed_at)) ELSE @,
     !.error = IF error # None /\ Val(error) # <<>> THEN error ELSE @,
     !.metadata = IF metadata # None THEN metadata ELSE @]

\* update_job_status, lines 152-162: the fields it sets on the loaded record.
StatusWritten(job_data, status, started_at, completed_at, error, metadata) ==
  [job_data EXCEPT
     !.status = status,
     !.started_at = IF started_at # None THEN isoformat(Val(started_at)) ELSE @,
     !.completed_at = IF completed_at # None THEN isoformat(Val(completed_at)) ELSE @,
     !.error = IF error # None /\ Val(error) # <<>> THEN error ELSE @,
     !.metadata = IF metadata # None THEN metadata ELSE @]

update_job_status(db, t, job_id, status, started_at, completed_at, error, metadata) ==
  LET key == get_job_key(job_id)
      data == redis_get(db, key)
  IN IF IsNone(data) THEN [db |-> db, ret |-> FALSE]
     ELSE [db |-> redis_setex(db, t, key, JobTTL,
                    StatusWritten(Val(data), status, started_at,
                                  completed_at, error, metadata)),
           ret |-> TRUE]

\* update_job_progress, lines 200-206: the progress object is replaced whole.
ProgressWritten(job_data, current_step, percentage, chunks_processed, total_chunks) ==
  [job_data EXCEPT
     !.progress = Some([current_step |-> current_step,
                        percentage |-> percentage,
                        chunks_processed |-> chunks_processed,
                        total_chunks |-> total_chunks])]

update_job_progress(db, t, job_id, current_step, percentage, chunks_processed, total_chunks) ==
  LET key == get_job_key(job_id)
      data == redis_get(db, key)
  IN IF IsNone(data) THEN [db |-> db, ret |-> FALSE]
     ELSE [db |-> redis_setex(db, t, key, JobTTL,
                    ProgressWritten(Val(data), current_step, percentage,
                                    chunks_processed, total_chunks)),
           ret |-> TRUE]

get_job_file_path(db, job_id) ==
  LET data == redis_get(db, get_job_key(job_id))
  IN IF IsNone(data) THEN None ELSE Val(data).file_path

\* Index of the first entry of files named file_name, 0 when there is none
\* (the for ... break loop of update_batch_file_status, lines 331-337).
FirstNamed(files, file_name) ==
  IF \E i \in 1..Len(files) : files[i].name = file_name
  THEN CHOOSE i \in 1..Len(files) :
         /\ files[i].name = file_name
         /\ \A k \in 1..(i - 1) : files[k].name # file_name
  ELSE 0

BatchFileWritten_SetsCurrentFile(job_data, file_name, status, chunks, error) ==
  LET batch == Val(job_data.batch)
      i == FirstNamed(batch.files, file_name)
      files == IF i = 0 THEN batch.files
               ELSE [batch.files EXCEPT
                       ![i].status = status,
                       ![i].chunks = chunks,
                       ![i].error = IF error # None /\ Val(error) # <<>> THEN error ELSE @]
  IN [job_data EXCEPT
        !.batch = Some([batch EXCEPT
                          !.files = files,
                          !.current_file = Some(file_name)])]

\* update_batch_file_status, lines 330-341.
BatchFileWritten(job_data, file_name, status, chunks, error) ==
  LET batch == Val(job_data.batch)
      i == FirstNamed(batch.files, file_name)
      files == IF i = 0 THEN batch.files
               ELSE [batch.files EXCEPT
                       ![i].status = status,
                       ![i].chunks = chunks,
                       ![i].error = IF error # None /\ Val(error) # <<>> THEN error ELSE @]
  IN [job_data EXCEPT
        !.batch = Some([batch EXCEPT
                          !.files = files,
                          !.current_file = IF status = "processing"
                                           THEN Some(file_name) ELSE @])]

update_batch_file_status(db, t, job_id, file_name, status, chunks, error) ==
  LET key == get_job_key(job_id)
      data == redis_get(db, key)
  IN IF IsNone(data) THEN [db |-> db, ret |-> FALSE]
     ELSE IF Val(data).is_batch # Some(TRUE) THEN [db |-> db, ret |-> FALSE]
     ELSE [db |-> redis_setex(db, t, key, JobTTL,
                    BatchFileWritten(Val(data), file_name, status, chunks, error)),
           ret |-> TRUE]

\* (processed_files / total_files) * 100, kept exact as a fraction.
Percent(processed_files, total_files) ==
  [num |-> processed_files * 100, den |-> total_files]

\* processed_files / total_files with total_files = 0
DividesByZero(job_data) == Val(job_data.batch).total_files = 0

BatchProgressWritten_KeepsProgress(job_data, processed_files) ==
  LET batch == Val(job_data.batch)
  IN [job_data EXCEPT
        !.batch = Some([batch EXCEPT !.processed_files = processed_files])]

\* update_batch_progress, lines 378-380.
BatchProgressWritten(job_data, processed_files) ==
  LET batch == Val(job_data.batch)
  IN [job_data EXCEPT
        !.batch = Some([batch EXCEPT
                          !.processed_files = processed_files,
                          !.overall_progress =
                             Percent(processed_files, batch.total_files)])]

update_batch_progress_Upsert(db, t, job_id, processed_files) ==
  LET key == get_job_key(job_id)
      data == redis_get(db, key)
      fresh == BatchJobData(job_id, <<>>, <<>>, t)
  IN IF IsNone(data)
     THEN [db |-> redis_setex(db, t, key, JobTTL,
                    BatchProgressWritten(fresh, processed_files)),
           ret |-> TRUE]
     ELSE IF Val(data).is_batch # Some(TRUE) THEN [db |-> db, ret |-> FALSE]
     ELSE [db |-> redis_setex(db, t, key, JobTTL,
                    BatchProgressWritten(Val(data), processed_files)),
           ret |-> TRUE]

\* For a batch of no files the division of line 380 raises ZeroDivisionError
\* before the SETEX: nothing is written and the call does not return True.
update_batch_progress(db, t, job_id, processed_files) ==
  LET key == get_job_key(job_id)
      data == redis_get(db, key)
  IN IF IsNone(data) THEN [db |-> db, ret |-> FALSE]
     ELSE IF Val(data).is_batch # Some(TRUE) THEN [db |-> db, ret |-> FALSE]
     ELSE IF DividesByZero(Val(data)) THEN [db |-> db, ret |-> FALSE]
     ELSE [db |-> redis_setex(db, t, key, JobTTL,
                    BatchProgressWritten(Val(data), processed_files)),
           ret |-> TRUE]

get_batch_file_paths(db, job_id) ==
  LET data == redis_get(db, get_job_key(job_id))
  IN IF IsNone(data) THEN None ELSE Val(data).file_paths

delete_job(db, job_id) ==
  LET r == redis_delete(db, get_job_key(job_id))
  IN [db |-> r.db, ret |-> r.n > 0]

----------------------------------------------------------------------------
(* Files.  A file name is its words, the extension last; a path in the     *)
(* upload directory is the upload's number and the file name.              *)

RECURSIVE Sum(_)
Sum(xs) == IF xs = <<>> THEN 0 ELSE xs[1] + Sum(Tail(xs))

\* str(path)
PathText(path) == <<"uploads", ToString(path.n)>> \o path.name

\* routes.get_file_extension
get_file_extension(filename) ==
  IF Len(filename) >= 2 THEN Lower(filename[Len(filename)]) ELSE ""

\* settings.allowed_extensions
allowed_extensions == {"pdf", "pptx"}

(* app/services/embed_utils.py: the collaborators of the tasks.  A call     *)
(* either returns a value or raises; raised is the text of the exception.   *)

\* extract_text_from_pdf / extract_text_from_pptx: the (number, text) pairs of
\* the pages that hold text; open() raises when the file is not there.
extract_text(fs, held, file_path) ==
  IF file_path \notin fs
  THEN [raised |-> Some(<<"No", "such", "file", "or", "directory">> \o PathText(file_path)),
        pages |-> <<>>]
  ELSE [raised |-> None, pages |-> held[file_path]]

\* chunk_by_page_or_slide: the pages joined by a blank line, split into
\* chunks of at most ChunkSize, each tagged with its source and index.
ChunkSize == 4

chunk_by_page_or_slide(pages, document_type, source_file, collection_name) ==
  LET all_text == Sum(pages) + 2 * (Len(pages) - 1)
      count == (all_text + ChunkSize - 1) \div ChunkSize
  IN [i \in 1..count |->
        [page_content |-> IF i < count THEN ChunkSize
                          ELSE all_text - ChunkSize * (count - 1),
         source_file |-> source_file,
         document_type |-> document_type,
         chunk_index |-> i - 1,
         collection_name |-> collection_name]]

\* The text of the error the embedding provider raises.
FaultKinds == {"OpenAI", "Timeout", "other"}

FaultText(kind) ==
  CASE kind = "OpenAI" -> <<"OpenAI", "API", "error">>
    [] kind = "Timeout" -> <<"Request", "Timeout">>
    [] OTHER -> <<"Connection", "refused">>

\* A chunk id f"{collection_name}_{source_hash}_{i}", with the suffix
\* f"_{counter}" when counter > 0.  The digest of source_file is carried as
\* source_file: the names of this model have different digests.
ChunkId(collection_name, source_file, i, counter) ==
  [collection |-> collection_name, source_file |-> source_file, i |-> i,
   counter |-> counter]

\* lines 225-229: the first of original_id, original_id_1, original_id_2, ...
\* that is not in seen_ids.
RECURSIVE Unseen(_, _, _)
Unseen(original_id, counter, seen_ids) ==
  IF [original_id EXCEPT !.counter = counter] \in seen_ids
  THEN Unseen(original_id, counter + 1, seen_ids)
  ELSE [original_id EXCEPT !.counter = counter]

\* lines 214-232: the ids of the first n documents.
RECURSIVE ChunkIds(_, _, _)
ChunkIds(docs, collection_name, n) ==
  IF n = 0 THEN <<>>
  ELSE LET ids == ChunkIds(docs, collection_name, n - 1)
           seen_ids == {ids[k] : k \in 1..Len(ids)}
       IN Append(ids,
                 Unseen(ChunkId(collection_name, docs[n].source_file, n - 1, 0),
                        0, seen_ids))

\* line 210
Documents(docs) == [i \in 1..Len(docs) |-> docs[i].page_content]

\* lines 235-241: every chunk made by split_into_chunks has metadata.
Metadatas(docs) ==
  [i \in 1..Len(docs) |->
     [source_file |-> docs[i].source_file,
      document_type |-> docs[i].document_type,
      chunk_index |-> docs[i].chunk_index,
      collection_name |-> docs[i].collection_name]]

Invalid_LengthsOnly(documents, ids, metadatas) ==
  IF Len(documents) # Len(ids) \/ Len(documents) # Len(metadatas)
  THEN Some(<<"Data", "length", "mismatch">>)
  ELSE None

\* lines 247-258: the ValueError the validation raises, if any.
Invalid(documents, ids, metadatas) ==
  IF Len(documents) # Len(ids) \/ Len(documents) # Len(metadatas)
  THEN Some(<<"Data", "length", "mismatch">>)
  ELSE IF Len(ids) # Cardinality({ids[k] : k \in 1..Len(ids)})
  THEN Some(<<"Duplicate", "IDs", "detected">>)
  ELSE None

\* lines 247-276: the validation, then collection.add, which calls the
\* embedding provider.
Submit(documents, ids, metadatas, failing, kind) ==
  IF Invalid(documents, ids, metadatas) # None
  THEN [raised |-> Invalid(documents, ids, metadatas), added |-> {},
        called |-> FALSE]
  ELSE IF failing
  THEN [raised |-> Some(FaultText(kind)), added |-> {}, called |-> TRUE]
  ELSE [raised |-> None, added |-> {ids[k] : k \in 1..Len(ids)},
        called |-> TRUE]

store_in_chroma_DropsLast(docs, collection_name, failing, kind) ==
  LET r == Submit(Documents(docs), ChunkIds(docs, collection_name, Len(docs)),
                  Metadatas(docs), failing, kind)
  IN [raised |-> r.raised,
      added |-> {id \in r.added : id.i < Len(docs) - 1}]

\* store_in_chroma: one id per chunk, then the validation and collection.add.
store_in_chroma(docs, collection_name, failing, kind) ==
  LET r == Submit(Documents(docs), ChunkIds(docs, collection_name, Len(docs)),
                  Metadatas(docs), failing, kind)
  IN [raised |-> r.raised, added |-> r.added]

----------------------------------------------------------------------------
(* app/workers/tasks.py: process_document_task *)

IsTransient_Always(error_message) == TRUE

\* "OpenAI" in error_message or "timeout" in error_message.lower()
IsTransient(error_message) ==
  HasWord(error_message, "OpenAI") \/ HasWordLower(error_message, "timeout")

JobNotFound(job_id) == <<"Job", ToString(job_id), "not", "found">>

Idle ==
  [pc |-> "idle", job_id |-> 0, retries |-> 0, start_time |-> 0,
   file_path |-> None, job |-> None, total_text_length |-> 0,
   total_chunks |-> 0, docs |-> <<>>, error |-> None]

DocTask(job_id, retries) ==
  [task |-> "process_document_task", job_id |-> job_id, retries |-> retries,
   files |-> <<>>, collection_name |-> <<>>]

\* The except clause is entered with the exception's text.
Raise(msg) == [w EXCEPT !.pc = "except", !.error = Some(msg)]
----------------------------------------------------------------------------
(* Inputs of the model *)

FileNames == {<<"notes", "pdf">>, <<"Timeout", "slides", "pptx">>}
Collections == {None}
\* the text lengths of the pages that hold text
Contents == {<<>>, <<3>>, <<3, 5>>}

storeSide == <<writers, lastCall, calls>>
provider == <<embedFaults, embedCalls, faultKind>>

----------------------------------------------------------------------------
(* app/api/routes.py: start_embedding *)

\* file.filename.rsplit(".", 1)[0].replace(" ", "_").lower()
DefaultCollection(filename) ==
  [i \in 1..(Len(filename) - 1) |-> Lower(filename[i])]

\* start_embedding under a setting of allowed_extensions (the setting is read
\* from the environment, app/config.py).
Upload(allowed, filename, collection, held) ==
  /\ nextJob < MaxJobs
  /\ get_file_extension(filename) \in allowed
  /\ LET job_id == nextJob + 1
         file_path == [n |-> job_id, name |-> filename]
         collection_name == IF collection = None
                            THEN DefaultCollection(filename)
                            ELSE Val(collection)
     IN /\ disk' = disk \cup {file_path}
        /\ content' = [p \in DOMAIN content \cup {file_path} |->
                         IF p = file_path THEN held ELSE content[p]]
        /\ removes' = [p \in DOMAIN removes \cup {file_path} |->
                         IF p = file_path THEN 0 ELSE removes[p]]
        /\ redis' = create_job(redis, now, job_id, filename,
                               get_file_extension(filename), file_path,
                               collection_name)
        /\ broker' = broker \cup {DocTask(job_id, 0)}
        /\ nextJob' = job_id
  /\ UNCHANGED <<now, w, b, chroma, provider, runlog, percents, storeSide>>

\* start_embedding under the default setting.
StartEmbedding(filename, collection, held) ==
  Upload(allowed_extensions, filename, collection, held)

\* A type that a wider setting of allowed_extensions lets through and that
\* the task has no extractor for.
WiderExtensions == allowed_extensions \cup {"docx"}
OtherNames == {<<"essay", "docx">>}

----------------------------------------------------------------------------
(* The worker runs process_document_task(job_id) for a message of the      *)
(* broker; every step below is one call on the store or on a collaborator. *)

DocDispatch(m) ==
  /\ w.pc = "idle" /\ b.pc = "idle"
  /\ m \in broker /\ m.task = "process_document_task"
  /\ broker' = broker \ {m}
  /\ w' = [Idle EXCEPT !.pc = "get_path", !.job_id = m.job_id,
                       !.retries = m.retries, !.start_time = now]
  /\ UNCHANGED <<redis, now, disk, content, nextJob, b, chroma, provider,
                 removes, runlog, percents, storeSide>>

docFrame == <<now, content, nextJob, b, storeSide>>

\* lines 39-41
DocGetPath ==
  /\ w.pc = "get_path"
  /\ LET file_path == get_job_file_path(redis, w.job_id)
     IN w' = IF file_path = None THEN Raise(JobNotFound(w.job_id))
             ELSE [w EXCEPT !.pc = "get_job", !.file_path = file_path]
  /\ UNCHANGED <<redis, disk, broker, chroma, provider, removes, runlog, percents, docFrame>>

\* lines 43-45
DocGetJob ==
  /\ w.pc = "get_job"
  /\ LET job == get_job(redis, w.job_id)
     IN w' = IF job = None THEN Raise(JobNotFound(w.job_id))
             ELSE [w EXCEPT !.pc = "mark_processing", !.job = job]
  /\ UNCHANGED <<redis, disk, broker, chroma, provider, removes, runlog, percents, docFrame>>

\* lines 48-52
DocMarkProcessing ==
  /\ w.pc = "mark_processing"
  /\ redis' = update_job_status(redis, now, w.job_id, PROCESSING,
                                Some(now), None, None, None).db
  /\ w' = [w EXCEPT !.pc = "progress_0"]
  /\ UNCHANGED <<disk, broker, chroma, provider, removes, runlog, percents, docFrame>>

\* The history of the percentages written: a call that returned False wrote
\* nothing.
Logged(log, job_id, percentage, ret) ==
  IF ret THEN [log EXCEPT ![job_id] = Append(@, percentage)] ELSE log

\* lines 53-57
DocProgress0 ==
  /\ w.pc = "progress_0"
  /\ redis' = update_job_progress(redis, now, w.job_id, "text_extraction", 0, 0, 0).db
  /\ w' = [w EXCEPT !.pc = "extract"]
  /\ percents' = Logged(percents, w.job_id, 0,
                      update_job_progress(redis, now, w.job_id, "text_extraction", 0, 0, 0).ret)
  /\ UNCHANGED <<disk, broker, chroma, provider, removes, runlog, docFrame>>

\* lines 61-73
DocExtract ==
  /\ w.pc = "extract"
  /\ LET job == Val(w.job)
         r == extract_text(disk, content, Val(w.file_path))
     IN w' = IF job.file_type \notin {"pdf", "pptx"}
             THEN Raise(<<"Unsupported", "file", "type", job.file_type>>)
             ELSE IF r.raised # None THEN Raise(Val(r.raised))
             ELSE IF r.pages = <<>>
             THEN Raise(<<"No", "text", "could", "be", "extracted">>)
             ELSE [w EXCEPT !.pc = "progress_25",
                            !.docs = r.pages,
                            !.total_text_length = Sum(r.pages)]
  /\ UNCHANGED <<redis, disk, broker, chroma, provider, removes, runlog, percents, docFrame>>

\* lines 76-80
DocProgress25 ==
  /\ w.pc = "progress_25"
  /\ redis' = update_job_progress(redis, now, w.job_id, "text_extraction", 25, 0, 0).db
  /\ w' = [w EXCEPT !.pc = "chunk"]
  /\ percents' = Logged(percents, w.job_id, 25,
                      update_job_progress(redis, now, w.job_id, "text_extraction", 25, 0, 0).ret)
  /\ UNCHANGED <<disk, broker, chroma, provider, removes, runlog, docFrame>>

\* lines 83-100
DocChunk ==
  /\ w.pc = "chunk"
  /\ LET job == Val(w.job)
         docs == chunk_by_page_or_slide(w.docs, job.file_type,
                                        job.file_name, job.collection_name)
     IN /\ redis' = update_job_progress(redis, now, w.job_id, "chunking",
                                        50, 0, Len(docs)).db
        /\ w' = [w EXCEPT !.pc = "progress_75", !.docs = docs,
                          !.total_chunks = Len(docs)]
        /\ percents' = Logged(percents, w.job_id, 50,
                              update_job_progress(redis, now, w.job_id, "chunking",
                                                  50, 0, Len(docs)).ret)
  /\ UNCHANGED <<disk, broker, chroma, provider, removes, runlog, docFrame>>

\* lines 103-109
DocProgress75 ==
  /\ w.pc = "progress_75"
  /\ redis' = update_job_progress(redis, now, w.job_id, "generating_embeddings",
                                  75, 0, w.total_chunks).db
  /\ w' = [w EXCEPT !.pc = "store"]
  /\ percents' = Logged(percents, w.job_id, 75,
                      update_job_progress(redis, now, w.job_id, "generating_embeddings", 75, 0, w.total_chunks).ret)
  /\ UNCHANGED <<disk, broker, chroma, provider, removes, runlog, docFrame>>

\* line 112
DocStore ==
  /\ w.pc = "store"
  /\ LET r == store_in_chroma(w.docs, Val(w.job).collection_name,
                              embedCalls < embedFaults, faultKind)
     IN /\ chroma' = chroma \cup r.added
        /\ w' = IF r.raised # None THEN Raise(Val(r.raised))
                ELSE [w EXCEPT !.pc = "progress_90"]
  /\ embedCalls' = embedCalls + 1
  /\ UNCHANGED <<redis, disk, broker, embedFaults, faultKind, removes, runlog, percents, docFrame>>

\* lines 115-121
DocProgress90 ==
  /\ w.pc = "progress_90"
  /\ redis' = update_job_progress(redis, now, w.job_id, "storing", 90,
                                  w.total_chunks, w.total_chunks).db
  /\ w' = [w EXCEPT !.pc = "completed"]
  /\ percents' = Logged(percents, w.job_id, 90,
                      update_job_progress(redis, now, w.job_id, "storing", 90, w.total_chunks, w.total_chunks).ret)
  /\ UNCHANGED <<disk, broker, chroma, provider, removes, runlog, docFrame>>

\* lines 124-138
DocCompleted ==
  /\ w.pc = "completed"
  /\ LET metadata == [chunks_count |-> w.total_chunks,
                      text_length |-> w.total_text_length,
                      processing_time_seconds |-> now - w.start_time]
     IN redis' = update_job_status(redis, now, w.job_id, COMPLETED, None,
                                   Some(now), None, Some(metadata)).db
  /\ w' = [w EXCEPT !.pc = "progress_100"]
  /\ UNCHANGED <<disk, broker, chroma, provider, removes, runlog, percents, docFrame>>

\* lines 140-153
DocProgress100 ==
  /\ w.pc = "progress_100"
  /\ redis' = update_job_progress(redis, now, w.job_id, "completed", 100,
                                  w.total_chunks, w.total_chunks).db
  /\ w' = [w EXCEPT !.pc = "finally"]
  /\ percents' = Logged(percents, w.job_id, 100,
                      update_job_progress(redis, now, w.job_id, "completed", 100, w.total_chunks, w.total_chunks).ret)
  /\ UNCHANGED <<disk, broker, chroma, provider, removes, runlog, docFrame>>

\* A retry bound that is off by one.
Retried_OffByOne(msgs, job_id, retries) ==
  IF retries > MaxRetries THEN msgs
  ELSE msgs \cup {[task |-> "process_document_task", job_id |-> job_id,
                   retries |-> retries + 1, files |-> <<>>,
                   collection_name |-> <<>>]}

\* self.retry(exc=e, countdown=60) under max_retries: a new message with one
\* more retry, unless the retries are used up (then exc is raised).
Retried(msgs, job_id, retries) ==
  IF retries + 1 > MaxRetries THEN msgs
  ELSE msgs \cup {DocTask(job_id, retries + 1)}

\* lines 155-173
DocExcept ==
  /\ w.pc = "except"
  /\ LET error_message == Val(w.error)
     IN /\ redis' = update_job_status(redis, now, w.job_id, FAILED, None,
                                      Some(now), Some(error_message), None).db
        /\ broker' = IF IsTransient(error_message)
                     THEN Retried(broker, w.job_id, w.retries)
                     ELSE broker
  /\ w' = [w EXCEPT !.pc = "finally"]
  /\ UNCHANGED <<disk, chroma, provider, removes, runlog, percents, docFrame>>

\* What the run ended with, for the history.
Outcome(error) ==
  IF error = None THEN "ok"
  ELSE IF IsTransient(Val(error)) THEN "transient" ELSE "permanent"

\* lines 175-183
DocFinally ==
  /\ w.pc = "finally"
  /\ LET file_path == get_job_file_path(redis, w.job_id)
         remove == file_path # None /\ Val(file_path) \in disk
     IN /\ disk' = IF remove THEN disk \ {Val(file_path)} ELSE disk
        /\ removes' = IF remove
                      THEN [removes EXCEPT ![Val(file_path)] = @ + 1]
                      ELSE removes
  /\ runlog' = [runlog EXCEPT ![w.job_id] = Append(@, Outcome(w.error))]
  /\ w' = Idle
  /\ UNCHANGED <<redis, broker, chroma, provider, percents, docFrame>>

----------------------------------------------------------------------------
(* app/workers/tasks.py: process_batch_embedding_task *)

BatchIdle ==
  [pc |-> "idle", job_id |-> 0, files |-> <<>>, collection_name |-> <<>>,
   start_time |-> 0, idx |-> 0, successful_files |-> 0, failed_files |-> 0,
   results |-> <<>>, docs |-> <<>>, total_chunks |-> 0,
   total_text_length |-> 0, error |-> None, attempted |-> <<>>]

BatchTask(job_id, files, collection_name) ==
  [task |-> "process_batch_embedding_task", job_id |-> job_id, retries |-> 0,
   files |-> files, collection_name |-> collection_name]

\* Submission of a batch: the uploads are saved, the batch job is created
\* and the task is queued with the same file list.
SubmitBatch(files, collection_name, held) ==
  /\ nextJob < MaxJobs
  /\ LET job_id == nextJob + 1
         paths == {files[i].path : i \in 1..Len(files)}
     IN /\ disk' = disk \cup paths
        /\ content' = [p \in DOMAIN content \cup paths |->
                         IF p \in paths
                         THEN held[CHOOSE i \in 1..Len(files) : files[i].path = p]
                         ELSE content[p]]
        /\ removes' = [p \in DOMAIN removes \cup paths |->
                         IF p \in paths THEN 0 ELSE removes[p]]
        /\ redis' = create_batch_job(redis, now, job_id, files, collection_name)
        /\ broker' = broker \cup {BatchTask(job_id, files, collection_name)}
        /\ nextJob' = job_id
  /\ UNCHANGED <<now, w, b, chroma, provider, runlog, percents, storeSide>>

BatchDispatch(m) ==
  /\ w.pc = "idle" /\ b.pc = "idle"
  /\ m \in broker /\ m.task = "process_batch_embedding_task"
  /\ broker' = broker \ {m}
  /\ b' = [BatchIdle EXCEPT !.pc = "mark_processing", !.job_id = m.job_id,
                            !.files = m.files,
                            !.collection_name = m.collection_name,
                            !.start_time = now]
  /\ UNCHANGED <<redis, now, disk, content, nextJob, w, chroma, provider,
                 removes, runlog, percents, storeSide>>

batchFrame == <<now, content, nextJob, w, broker, storeSide>>

\* for idx, file_info in enumerate(files, 1): the next file, or the end.
LoopStep(st) ==
  IF st.idx < Len(st.files)
  THEN [st EXCEPT !.pc = "file_processing", !.idx = st.idx + 1]
  ELSE [st EXCEPT !.pc = "final"]

\* lines 214-218
BatchMarkProcessing ==
  /\ b.pc = "mark_processing"
  /\ redis' = update_job_status(redis, now, b.job_id, PROCESSING,
                                Some(now), None, None, None).db
  /\ b' = LoopStep(b)
  /\ UNCHANGED <<disk, chroma, provider, removes, runlog, percents, batchFrame>>

\* lines 222-238
BatchFileProcessing ==
  /\ b.pc = "file_processing"
  /\ redis' = update_batch_file_status(redis, now, b.job_id,
                                       b.files[b.idx].name, "processing",
                                       0, None).db
  /\ b' = [b EXCEPT !.pc = "extract", !.attempted = Append(@, b.idx)]
  /\ UNCHANGED <<disk, chroma, provider, removes, runlog, percents, batchFrame>>

BatchRaise(msg) == [b EXCEPT !.pc = "file_failed", !.error = Some(msg)]

\* lines 245-273
BatchExtract ==
  /\ b.pc = "extract"
  /\ LET file_info == b.files[b.idx]
         r == extract_text(disk, content, file_info.path)
         docs == chunk_by_page_or_slide(r.pages, file_info.type,
                                        file_info.name, b.collection_name)
     IN b' = IF file_info.type \notin {"pdf", "pptx"}
             THEN BatchRaise(<<"Unsupported", "file", "type", file_info.type>>)
             ELSE IF r.raised # None THEN BatchRaise(Val(r.raised))
             ELSE IF r.pages = <<>>
             THEN BatchRaise(<<"No", "text", "could", "be", "extracted">>)
             ELSE [b EXCEPT !.pc = "store", !.docs = docs,
                            !.total_chunks = Len(docs),
                            !.total_text_length =
                               Sum([i \in 1..Len(docs) |-> docs[i].page_content])]
  /\ UNCHANGED <<redis, disk, chroma, provider, removes, runlog, percents, batchFrame>>

\* line 278
BatchStore ==
  /\ b.pc = "store"
  /\ LET r == store_in_chroma(b.docs, b.collection_name,
                              embedCalls < embedFaults, faultKind)
     IN /\ chroma' = chroma \cup r.added
        /\ b' = IF r.raised # None THEN BatchRaise(Val(r.raised))
                ELSE [b EXCEPT !.pc = "file_completed"]
  /\ embedCalls' = embedCalls + 1
  /\ UNCHANGED <<redis, disk, embedFaults, faultKind, removes, runlog, percents, batchFrame>>

\* lines 282-295
BatchFileCompleted ==
  /\ b.pc = "file_completed"
  /\ redis' = update_batch_file_status(redis, now, b.job_id,
                                       b.files[b.idx].name, "completed",
                                       b.total_chunks, None).db
  /\ b' = [b EXCEPT !.pc = "cleanup",
                    !.successful_files = @ + 1,
                    !.results = Append(@, [file |-> b.files[b.idx].name,
                                           status |-> "completed",
                                           chunks |-> b.total_chunks,
                                           text_length |-> b.total_text_length])]
  /\ UNCHANGED <<disk, chroma, provider, removes, runlog, percents, batchFrame>>

\* lines 300-324
BatchFileFailed ==
  /\ b.pc = "file_failed"
  /\ redis' = update_batch_file_status(redis, now, b.job_id,
                                       b.files[b.idx].name, "failed",
                                       0, b.error).db
  /\ b' = [b EXCEPT !.pc = "cleanup",
                    !.failed_files = @ + 1,
                    !.error = None,
                    !.results = Append(@, [file |-> b.files[b.idx].name,
                                           status |-> "failed",
                                           chunks |-> 0,
                                           text_length |-> 0])]
  /\ UNCHANGED <<disk, chroma, provider, removes, runlog, percents, batchFrame>>

\* lines 328-335
BatchCleanup ==
  /\ b.pc = "cleanup"
  /\ LET file_path == b.files[b.idx].path
     IN /\ disk' = disk \ {file_path}
        /\ removes' = IF file_path \in disk
                      THEN [removes EXCEPT ![file_path] = @ + 1]
                      ELSE removes
  /\ b' = [b EXCEPT !.pc = "progress"]
  /\ UNCHANGED <<redis, chroma, provider, runlog, percents, batchFrame>>

\* lines 338-341
BatchProgress ==
  /\ b.pc = "progress"
  /\ redis' = update_batch_progress(redis, now, b.job_id, b.idx).db
  /\ b' = LoopStep(b)
  /\ UNCHANGED <<disk, chroma, provider, removes, runlog, percents, batchFrame>>

\* A final status that forgets the case of no success.
FinalStatus_NoFailedCase(ok_files, bad_files) ==
  IF bad_files = 0 THEN COMPLETED ELSE PARTIALLY_COMPLETED

\* lines 347-355
FinalStatus(ok_files, bad_files) ==
  IF bad_files = 0 THEN COMPLETED
  ELSE IF ok_files = 0 THEN FAILED
  ELSE PARTIALLY_COMPLETED

\* error=None if failed_files == 0 else f"{failed_files} files failed"
BatchError(bad_files) ==
  IF bad_files = 0 THEN None
  ELSE Some(<<ToString(bad_files), "files", "failed">>)

Completed(results) == {i \in 1..Len(results) : results[i].status = "completed"}

\* lines 344-399
BatchFinal ==
  /\ b.pc = "final"
  /\ LET done == Completed(b.results)
         total_chunks == Sum([i \in 1..Len(b.results) |->
                                IF i \in done THEN b.results[i].chunks ELSE 0])
         total_text_length == Sum([i \in 1..Len(b.results) |->
                                IF i \in done THEN b.results[i].text_length ELSE 0])
         metadata == [chunks_count |-> total_chunks,
                      text_length |-> total_text_length,
                      processing_time_seconds |-> now - b.start_time,
                      successful_files |-> b.successful_files,
                      failed_files |-> b.failed_files,
                      total_files |-> Len(b.files)]
     IN redis' = update_job_status(redis, now, b.job_id,
                                   FinalStatus(b.successful_files, b.failed_files),
                                   None, Some(now),
                                   BatchError(b.failed_files),
                                   Some(metadata)).db
  /\ b' = [b EXCEPT !.pc = "returned"]
  /\ runlog' = [runlog EXCEPT ![b.job_id] = Append(@, "ok")]
  /\ UNCHANGED <<disk, chroma, provider, removes, percents, batchFrame>>

----------------------------------------------------------------------------
(* The job store out of reach.  A call of QueueManager made while Redis     *)
(* cannot be reached raises redis.ConnectionError instead of returning;     *)
(* whether Redis can be reached is open anew at every call.                 *)

\* str() of the ConnectionError
StoreUnreachable == <<"Error", "connecting", "to", "redis">>

\* Where control goes when the store call of a step raises: the calls of
\* lines 234-238 and 282-287 are inside the per-file try and lead to its
\* except clause; those of lines 214-218, 338-341 and 371-377 are outside
\* and lead to the except clause of the task.
AfterStoreError(pc) ==
  IF pc \in {"file_processing", "file_completed"} THEN "file_failed"
  ELSE "catastrophe"

BatchStoreCallRaises ==
  /\ b.pc \in {"mark_processing", "file_processing", "file_completed",
               "progress", "final"}
  /\ b' = [b EXCEPT !.pc = AfterStoreError(b.pc),
                    !.error = Some(StoreUnreachable),
                    !.attempted = IF b.pc = "file_processing"
                                  THEN Append(@, b.idx) ELSE @]
  /\ UNCHANGED <<redis, disk, chroma, provider, removes, runlog, percents,
                 batchFrame>>

\* lines 300-335: update_batch_file_status raises inside the per-file except
\* clause; the finally clause removes the file and the error leaves the loop.
BatchFileFailedRaises ==
  /\ b.pc = "file_failed"
  /\ LET file_path == b.files[b.idx].path
     IN /\ disk' = disk \ {file_path}
        /\ removes' = IF file_path \in disk
                      THEN [removes EXCEPT ![file_path] = @ + 1]
                      ELSE removes
  /\ b' = [b EXCEPT !.pc = "catastrophe", !.error = Some(StoreUnreachable)]
  /\ UNCHANGED <<redis, chroma, provider, runlog, percents, batchFrame>>

\* lines 401-423 with the store in reach: the record is marked FAILED, the
\* files that are still there are removed, the error is raised again.
BatchCatastrophe ==
  /\ b.pc = "catastrophe"
  /\ redis' = update_job_status(redis, now, b.job_id, FAILED, None, Some(now),
                                b.error, None).db
  /\ LET paths == {b.files[i].path : i \in 1..Len(b.files)}
     IN /\ disk' = disk \ paths
        /\ removes' = [p \in DOMAIN removes |->
                         IF p \in paths \cap disk THEN removes[p] + 1
                         ELSE removes[p]]
  /\ b' = [b EXCEPT !.pc = "raised"]
  /\ runlog' = [runlog EXCEPT ![b.job_id] = Append(@, "raised")]
  /\ UNCHANGED <<chroma, provider, percents, batchFrame>>

\* lines 401-410 with the store out of reach: update_job_status raises inside
\* the except clause of the task, which ends there.
BatchCatastropheRaises ==
  /\ b.pc = "catastrophe"
  /\ b' = [b EXCEPT !.pc = "raised", !.error = Some(StoreUnreachable)]
  /\ runlog' = [runlog EXCEPT ![b.job_id] = Append(@, "raised")]
  /\ UNCHANGED <<redis, disk, chroma, provider, removes, percents, batchFrame>>

----------------------------------------------------------------------------
(* The environment of the tasks *)

\* Time passes; a key whose time to live has elapsed is gone.
Tick ==
  /\ now < MaxTime
  /\ now' = now + 1
  /\ redis' = [k \in {k \in DOMAIN redis : redis[k].expire_at > now + 1} |-> redis[k]]
  /\ UNCHANGED <<disk, content, nextJob, broker, w, b, chroma, provider,
                 removes, runlog, percents, storeSide>>

\* A client deletes a job: QueueManager.delete_job.
DeleteJob(job_id) ==
  /\ get_job_key(job_id) \in DOMAIN redis
  /\ redis' = delete_job(redis, job_id).db
  /\ UNCHANGED <<now, disk, content, nextJob, broker, w, b, chroma, provider,
                 removes, runlog, percents, storeSide>>

JobIds == 1..MaxJobs

InitCommon ==
  /\ redis = <<>>
  /\ now = 0
  /\ disk = {}
  /\ content = <<>>
  /\ nextJob = 0
  /\ broker = {}
  /\ w = Idle
  /\ b = BatchIdle
  /\ chroma = {}
  /\ removes = <<>>
  /\ runlog = [j \in JobIds |-> <<>>]
  /\ percents = [j \in JobIds |-> <<>>]
  /\ writers = <<>>
  /\ lastCall = None
  /\ calls = [j \in 1..(MaxJobs + 1) |-> 0]

(* The single-document pipeline: one upload followed through its task      *)
(* chain (jobs share nothing but the worker), the clock, deletion.          *)

InitDoc ==
  /\ InitCommon
  /\ embedFaults \in 0..MaxFaults
  /\ embedCalls = 0
  /\ faultKind \in IF embedFaults = 0 THEN {"other"} ELSE FaultKinds

NextDoc ==
  \/ \E f \in FileNames, c \in Collections, h \in Contents :
        nextJob = 0 /\ StartEmbedding(f, c, h)
  \/ \E f \in OtherNames :
        nextJob = 0 /\ Upload(WiderExtensions, f, None, <<3>>)
  \/ \E m \in broker : DocDispatch(m)
  \/ DocGetPath
  \/ DocGetJob
  \/ DocMarkProcessing
  \/ DocProgress0
  \/ DocExtract
  \/ DocProgress25
  \/ DocChunk
  \/ DocProgress75
  \/ DocStore
  \/ DocProgress90
  \/ DocCompleted
  \/ DocProgress100
  \/ DocExcept
  \/ DocFinally
  \/ Tick
  \/ \E j \in JobIds : DeleteJob(j)

SpecDoc == InitDoc /\ [][NextDoc]_vars

(* The single-document pipeline under a broker that delivers at least once: *)
(* the message of a job that is already COMPLETED may be delivered again.   *)
DocRedeliver(job_id) ==
  /\ w.pc = "idle" /\ b.pc = "idle"
  /\ broker = {}
  /\ get_job_key(job_id) \in DOMAIN redis
  /\ redis[get_job_key(job_id)].value.status = COMPLETED
  /\ broker' = {DocTask(job_id, 0)}
  /\ UNCHANGED <<redis, now, disk, content, nextJob, w, b, chroma, provider,
                 removes, runlog, percents, storeSide>>

NextRedelivery ==
  \/ NextDoc
  \/ \E j \in JobIds : DocRedeliver(j)

SpecRedelivery == InitDoc /\ [][NextRedelivery]_vars

(* The batch pipeline: one batch followed through its task, the clock,      *)
(* deletion.                                                                *)

BatchNames == {<<"a", "pdf">>, <<"b", "pptx">>}
BatchContents == {<<>>, <<3, 5>>}

\* The file lists a batch is submitted with: 0..MaxFiles files, each with
\* its own path; two files may carry the same name.
FileLists ==
  UNION {[1..n -> BatchNames] : n \in 0..MaxFiles}

FilesOf(names) ==
  [i \in 1..Len(names) |->
     [path |-> [n |-> i, name |-> names[i]],
      name |-> names[i],
      type |-> get_file_extension(names[i])]]

InitBatch ==
  /\ InitCommon
  /\ embedFaults \in 0..MaxFaults
  /\ embedCalls = 0
  /\ faultKind \in IF embedFaults = 0 THEN {"other"} ELSE FaultKinds

NextBatch ==
  \/ \E names \in FileLists : \E held \in [1..Len(names) -> BatchContents] :
        nextJob = 0 /\ SubmitBatch(FilesOf(names), <<"physics">>, held)
  \/ \E m \in broker : BatchDispatch(m)
  \/ BatchMarkProcessing
  \/ BatchFileProcessing
  \/ BatchExtract
  \/ BatchStore
  \/ BatchFileCompleted
  \/ BatchFileFailed
  \/ BatchCleanup
  \/ BatchProgress
  \/ BatchFinal
  \/ Tick
  \/ \E j \in JobIds : DeleteJob(j)

SpecBatch == InitBatch /\ [][NextBatch]_vars


(* The batch task with a job store that may be out of reach. *)
NextOutage ==
  \/ NextBatch
  \/ BatchStoreCallRaises
  \/ BatchFileFailedRaises
  \/ BatchCatastrophe
  \/ BatchCatastropheRaises

SpecOutage == InitBatch /\ [][NextOutage]_vars

(* The worker under fair scheduling.  One job, of a single document or of   *)
(* a batch, is submitted; its record is kept (no deletion, and the clock    *)
(* stops short of an expiry); the Celery worker, once it can take a message *)
(* or go on with the task it runs, does so.                                 *)

\* A step of the clock at which no record expires.
TickKeeping == Tick /\ DOMAIN redis' = DOMAIN redis

\* The worker takes a message or goes on with its task.
WorkerStep ==
  \/ \E m \in broker : DocDispatch(m)
  \/ DocGetPath
  \/ DocGetJob
  \/ DocMarkProcessing
  \/ DocProgress0
  \/ DocExtract
  \/ DocProgress25
  \/ DocChunk
  \/ DocProgress75
  \/ DocStore
  \/ DocProgress90
  \/ DocCompleted
  \/ DocProgress100
  \/ DocExcept
  \/ DocFinally
  \/ \E m \in broker : BatchDispatch(m)
  \/ BatchMarkProcessing
  \/ BatchFileProcessing
  \/ BatchExtract
  \/ BatchStore
  \/ BatchFileCompleted
  \/ BatchFileFailed
  \/ BatchCleanup
  \/ BatchProgress
  \/ BatchFinal

NextLive ==
  \/ \E f \in FileNames, h \in Contents :
        nextJob = 0 /\ StartEmbedding(f, None, h)
  \/ \E names \in FileLists : \E held \in [1..Len(names) -> BatchContents] :
        nextJob = 0 /\ SubmitBatch(FilesOf(names), <<"physics">>, held)
  \/ WorkerStep
  \/ TickKeeping

SpecLive == InitDoc /\ [][NextLive]_vars /\ WF_vars(WorkerStep)

----------------------------------------------------------------------------
(* Concurrent clients of the job store.  Every update of QueueManager is a  *)
(* GET, a change of the loaded copy and a SETEX, with no lock and no        *)
(* transaction: another client's calls may fall between the two.            *)

Writers == {1, 2}

\* The calls a writer makes on job 1.
UpdateCalls ==
  {[op |-> "update_job_status", status |-> PROCESSING, file_name |-> <<>>,
    n |-> 0]}
  \cup {[op |-> "update_job_progress", status |-> "", file_name |-> <<>>,
         n |-> pct] : pct \in {25, 50}}
  \cup {[op |-> "update_batch_file_status", status |-> st, file_name |-> f,
         n |-> 1] : st \in {"processing", "completed"}, f \in BatchNames}
  \cup {[op |-> "update_batch_progress", status |-> "", file_name |-> <<>>,
         n |-> k] : k \in 1..MaxFiles}

\* The record a call writes, from the copy it loaded.
Written(call, job_data, t) ==
  CASE call.op = "update_job_status" ->
         StatusWritten(job_data, call.status, Some(t), None, None, None)
    [] call.op = "update_job_progress" ->
         ProgressWritten(job_data, "chunking", call.n, 0, 0)
    [] call.op = "update_batch_file_status" ->
         BatchFileWritten(job_data, call.file_name, call.status, call.n, None)
    [] OTHER ->
         BatchProgressWritten(job_data, call.n)

BatchOnly(call) ==
  call.op \in {"update_batch_file_status", "update_batch_progress"}

\* The GET of an update and the early returns after it.
WriterRead(wr, call) ==
  /\ wr \notin DOMAIN writers
  /\ LET data == redis_get(redis, get_job_key(1))
         miss == \/ IsNone(data)
                 \/ (BatchOnly(call) /\ Val(data).is_batch # Some(TRUE))
                 \/ (call.op = "update_batch_progress" /\ DividesByZero(Val(data)))
     IN writers' = [x \in DOMAIN writers \cup {wr} |->
                      IF x = wr
                      THEN [call |-> call, data |-> data, at |-> now,
                            pc |-> IF miss THEN "returned" ELSE "loaded",
                            ret |-> FALSE]
                      ELSE writers[x]]
  /\ UNCHANGED <<redis, now, disk, content, nextJob, broker, w, b, chroma,
                 provider, removes, runlog, percents, lastCall, calls>>

\* The SETEX of the update.
WriterWrite(wr) ==
  /\ wr \in DOMAIN writers
  /\ writers[wr].pc = "loaded"
  /\ redis' = redis_setex(redis, now, get_job_key(1), JobTTL,
                          Written(writers[wr].call, Val(writers[wr].data),
                                  writers[wr].at))
  /\ writers' = [writers EXCEPT ![wr].pc = "returned", ![wr].ret = TRUE]
  /\ UNCHANGED <<now, disk, content, nextJob, broker, w, b, chroma,
                 provider, removes, runlog, percents, lastCall, calls>>

InitConc ==
  /\ InitCommon
  /\ embedFaults = 0
  /\ embedCalls = 0
  /\ faultKind = "other"

NextConc ==
  \/ \E names \in FileLists : \E held \in [1..Len(names) -> BatchContents] :
        nextJob = 0 /\ SubmitBatch(FilesOf(names), <<"physics">>, held)
  \/ \E wr \in Writers, call \in UpdateCalls : WriterRead(wr, call)
  \/ \E wr \in Writers : WriterWrite(wr)

SpecConc == InitConc /\ [][NextConc]_vars

(* The same writers, with deletion and the clock: a record may be deleted   *)
(* or expire between the GET and the SETEX of an update.                    *)
NextGone ==
  \/ NextConc
  \/ \E j \in JobIds : DeleteJob(j)
  \/ Tick

SpecGone == InitConc /\ [][NextGone]_vars

----------------------------------------------------------------------------
(* Clients of the job store: each call below is one whole method of         *)
(* QueueManager, made on a job id that may or may not have a record.        *)

\* The job ids clients ask about; the last one is never given to a job.
StoreIds == 1..(MaxJobs + 1)

\* The calls clients make: those of the concurrent writers, and the report
\* of a failure.
StoreCalls ==
  UpdateCalls
  \cup {[op |-> "update_job_status", status |-> FAILED, file_name |-> <<>>,
          n |-> 0]}

\* The update a client makes, with its arguments.
Apply(call, db, t, job_id) ==
  CASE call.op = "update_job_status" /\ call.status = FAILED ->
         update_job_status(db, t, job_id, FAILED, None, Some(t),
                           Some(<<"boom">>), None)
    [] call.op = "update_job_status" /\ call.status # FAILED ->
         update_job_status(db, t, job_id, call.status, Some(t), None, None, None)
    [] call.op = "update_job_progress" ->
         update_job_progress(db, t, job_id, "chunking", call.n, 0, 0)
    [] call.op = "update_batch_file_status" ->
         update_batch_file_status(db, t, job_id, call.file_name, call.status,
                                  call.n, None)
    [] OTHER ->
         update_batch_progress(db, t, job_id, call.n)

storeFrame == <<now, disk, content, nextJob, broker, w, b, chroma, provider,
                removes, runlog, percents, writers>>

\* GET /jobs/{job_id}: QueueManager.get_job.
StoreGet(job_id) ==
  /\ lastCall' = Some([op |-> "get_job",
                       job_id |-> job_id,
                       missing |-> get_job_key(job_id) \notin DOMAIN redis,
                       created |-> job_id <= nextJob,
                       found |-> get_job(redis, job_id),
                       ok |-> TRUE,
                       wrote |-> FALSE])
  /\ UNCHANGED <<redis, calls>>
  /\ UNCHANGED storeFrame

\* One of the four update methods, from its GET to its SETEX.
StoreUpdate(job_id, call) ==
  /\ Sum(calls) < MaxCalls
  /\ LET r == Apply(call, redis, now, job_id)
     IN /\ redis' = r.db
        /\ lastCall' = Some([op |-> call.op,
                             job_id |-> job_id,
                             missing |-> get_job_key(job_id) \notin DOMAIN redis,
                       created |-> job_id <= nextJob,
                             found |-> None,
                             ok |-> r.ret,
                             wrote |-> r.db # redis])
  /\ calls' = [calls EXCEPT ![job_id] = IF Apply(call, redis, now, job_id).ret
                                       THEN @ + 1 ELSE @]
  /\ UNCHANGED storeFrame

InitStore ==
  /\ InitCommon
  /\ embedFaults = 0
  /\ embedCalls = 0
  /\ faultKind = "other"

NextStore ==
  \/ \E f \in FileNames : StartEmbedding(f, None, <<3>>)
  \/ \E names \in FileLists :
        SubmitBatch(FilesOf(names), <<"physics">>, [i \in 1..Len(names) |-> <<3, 5>>])
  \/ \E j \in StoreIds : StoreGet(j)
  \/ \E j \in StoreIds, call \in StoreCalls : StoreUpdate(j, call)
  \/ Tick
  \/ \E j \in StoreIds : DeleteJob(j)

SpecStore == InitStore /\ [][NextStore]_vars

----------------------------------------------------------------------------
(* Notions the properties use *)

\* The stored record of a job (only where it exists).
Rec(job_id) == redis[get_job_key(job_id)].value
Exists(job_id) == get_job_key(job_id) \in DOMAIN redis

\* The uploaded file of single-document job job_id.
PathOf(job_id) == CHOOSE p \in DOMAIN content : p.n = job_id

\* Some execution of the task for job_id has exited and none is running.
Exited(job_id) ==
  /\ runlog[job_id] # <<>>
  /\ ~(w.pc # "idle" /\ w.job_id = job_id)

\* The task chain of job_id is over: exited, and no retry is waiting.
ChainDone(job_id) ==
  /\ Exited(job_id)
  /\ \A m \in broker : m.job_id # job_id

AllTransient(log) == \A i \in 1..Len(log) : log[i] = "transient"

----------------------------------------------------------------------------
(* C1: for a single-document job, once the stored status is COMPLETED,     *)
(* FAILED or PARTIALLY_COMPLETED, no later write sets it back to QUEUED or *)
(* PROCESSING.                                                             *)
C1_TerminalStatusIsKept ==
  [][\A k \in DOMAIN redis \cap DOMAIN redis' :
       redis[k].value.status \in Terminal
         => redis'[k].value.status \in Terminal]_vars

(* C2: whenever process_document_task has exited, the job's uploaded file  *)
(* no longer exists and was removed exactly once.                          *)
C2_FileRemovedOnceOnExit ==
  \A j \in 1..nextJob :
    Exited(j) => (PathOf(j) \notin disk /\ removes[PathOf(j)] = 1)

(* C3: when the embedding provider fails transiently on its first two calls *)
(* and succeeds from the third on, a job whose file holds text and whose    *)
(* record is kept ends COMPLETED after exactly two retries (three runs).    *)
C3_CompletedAfterTwoRetries ==
  \A j \in 1..nextJob :
    ( /\ ChainDone(j)
      /\ Exists(j)
      /\ content[PathOf(j)] # <<>>
      /\ embedFaults = 2
      /\ IsTransient(FaultText(faultKind)) )
    => (Rec(j).status = COMPLETED /\ Len(runlog[j]) = 3)

(* C4: the task of a job is executed at most 1 + max_retries times; a task  *)
(* chain in which every execution failed with a transient error ends only   *)
(* once the executions number 1 + max_retries, and then the record, where   *)
(* it exists, has status FAILED.                                            *)
C4_RetriesAreBounded ==
  \A j \in JobIds :
    /\ Len(runlog[j]) <= MaxRetries + 1
    /\ (ChainDone(j) /\ AllTransient(runlog[j]))
         => /\ Len(runlog[j]) = MaxRetries + 1
            /\ Exists(j) => Rec(j).status = FAILED

C4_Witness ==
  /\ ChainDone(1)
  /\ AllTransient(runlog[1])
  /\ Len(runlog[1]) = MaxRetries + 1
  /\ Exists(1)
----------------------------------------------------------------------------
(* The batch task has returned. *)
BatchReturned == b.pc = "returned"

\* The files of the running batch whose extraction yields no text.
Textless == {i \in 1..Len(b.files) : content[b.files[i].path] = <<>>}

Failed(results) == {i \in 1..Len(results) : results[i].status = "failed"}

(* C5: after the task of a batch of N >= 2 files in which exactly one      *)
(* file's extraction fails and everything else succeeds, the status is     *)
(* PARTIALLY_COMPLETED, batch.files holds one failed and N-1 completed     *)
(* entries, successful_files + failed_files = total_files, and no          *)
(* temporary file of the batch exists.                                     *)
C5_OneFailureIsPartial ==
  ( /\ BatchReturned
    /\ Exists(b.job_id)
    /\ Len(b.files) >= 2
    /\ Cardinality(Textless) = 1
    /\ embedFaults = 0 )
  => LET batch == Val(Rec(b.job_id).batch)
     IN /\ Rec(b.job_id).status = PARTIALLY_COMPLETED
        /\ failed_files(batch) = 1
        /\ successful_files(batch) = Len(b.files) - 1
        /\ successful_files(batch) + failed_files(batch) = batch.total_files
        /\ \A i \in 1..Len(b.files) : b.files[i].path \notin disk

(* C6: when the batch task has finished its loop, the status written is    *)
(* COMPLETED if no file failed, FAILED if no file succeeded, otherwise     *)
(* PARTIALLY_COMPLETED; when every file failed it is FAILED and the error  *)
(* is the text "<number of failed files> files failed".                    *)
C6_FinalBatchStatus ==
  (BatchReturned /\ Exists(b.job_id))
  => LET bad == Cardinality(Failed(b.results))
         ok == Cardinality(Completed(b.results))
         rec == Rec(b.job_id)
     IN /\ bad = 0 => rec.status = COMPLETED
        /\ (bad > 0 /\ ok = 0) => rec.status = FAILED
        /\ (bad > 0 /\ ok > 0) => rec.status = PARTIALLY_COMPLETED
        /\ (bad = Len(b.files) /\ bad > 0)
             => /\ rec.status = FAILED
                /\ rec.error = Some(<<ToString(bad), "files", "failed">>)

C6_Witness ==
  /\ BatchReturned
  /\ Exists(b.job_id)
  /\ Len(b.files) >= 2
  /\ Cardinality(Failed(b.results)) = Len(b.files)
  /\ Rec(b.job_id).status = FAILED

(* C7: a failure of one file never stops the batch: before a file is       *)
(* started the temporary files of all earlier files are gone, and when the *)
(* task has returned every file was attempted once, in input order, and    *)
(* its entry is completed or failed.                                       *)
C7_EveryFileIsHandled ==
  /\ b.pc = "file_processing"
       => \A k \in 1..(b.idx - 1) : b.files[k].path \notin disk
  /\ (BatchReturned /\ Exists(b.job_id))
       => /\ b.attempted = [i \in 1..Len(b.files) |-> i]
          /\ \A i \in 1..Len(b.files) :
               Val(Rec(b.job_id).batch).files[i].status \in {"completed", "failed"}
----------------------------------------------------------------------------
\* The batch record as create_batch_job wrote it.
AsCreated(rec) ==
  [rec EXCEPT
     !.status = QUEUED,
     !.started_at = None,
     !.progress = None,
     !.batch = Some([Val(@) EXCEPT
                       !.processed_files = 0,
                       !.current_file = None,
                       !.overall_progress = [num |-> 0, den |-> 1],
                       !.files = [i \in 1..Len(Val(rec.batch).files) |->
                                    [name |-> Val(rec.batch).files[i].name,
                                     status |-> "pending",
                                     chunks |-> 0,
                                     error |-> None]]])]

(* C8: when two updates of the same job have both returned true, the       *)
(* stored record is what the two updates give when applied one after the   *)
(* other, in one order or the other: neither update is lost.               *)
C8_NoLostUpdate ==
  ( /\ DOMAIN writers = Writers
    /\ \A wr \in Writers : writers[wr].pc = "returned" /\ writers[wr].ret )
  => LET c1 == writers[1]
         c2 == writers[2]
         base == AsCreated(Rec(1))
     IN \/ Rec(1) = Written(c2.call, Written(c1.call, base, c1.at), c2.at)
        \/ Rec(1) = Written(c1.call, Written(c2.call, base, c2.at), c1.at)
----------------------------------------------------------------------------
\* The last call a client made on the job store.
Last == Val(lastCall)

(* C9: a get_job on the id of a job made by create_job or create_batch_job, *)
(* while its record is kept and before any update of it, returns a job with *)
(* status QUEUED and with no progress, no metadata and no error.            *)
C9_CreatedJobIsQueued ==
  ( /\ lastCall # None
    /\ Last.op = "get_job"
    /\ ~Last.missing
    /\ calls[Last.job_id] = 0 )
  => /\ Last.found # None
     /\ Val(Last.found).status = QUEUED
     /\ Val(Last.found).progress = None
     /\ Val(Last.found).metadata = None
     /\ Val(Last.found).error = None

C9_Witness ==
  /\ lastCall # None
  /\ Last.op = "get_job"
  /\ ~Last.missing
  /\ calls[Last.job_id] = 0
  /\ Last.found # None
  /\ ~Val(Last.found).is_batch

(* C10: on a job id that has no record (never given to a job, deleted, or   *)
(* expired) get_job returns nothing, and each of the four update methods    *)
(* returns false and leaves the store as it was.                            *)
C10_MissingJobIsNoOp ==
  (lastCall # None /\ Last.missing)
  => IF Last.op = "get_job"
     THEN Last.found = None
     ELSE ~Last.ok /\ ~Last.wrote

C10_Witness ==
  /\ lastCall # None
  /\ Last.missing
  /\ Last.op = "update_batch_progress"
  /\ Last.created
  /\ ~Last.ok

----------------------------------------------------------------------------
(* C11: a stored record is readable exactly until JobTTL has elapsed since  *)
(* its last successful write: every record in the store has an expiry in    *)
(* the future and at most JobTTL away; every successful update of a job     *)
(* sets the expiry of its record to the time of the update plus JobTTL;     *)
(* and when time passes a record stays if its expiry is still ahead and is  *)
(* gone if it is not.                                                       *)
C11_SlidingExpiry ==
  /\ [](\A k \in DOMAIN redis :
          now < redis[k].expire_at /\ redis[k].expire_at <= now + JobTTL)
  /\ [][ /\ \A j \in StoreIds :
              calls'[j] # calls[j]
                => /\ get_job_key(j) \in DOMAIN redis'
                   /\ redis'[get_job_key(j)].expire_at = now + JobTTL
         /\ now' # now
              => \A k \in DOMAIN redis :
                   k \in DOMAIN redis' <=> redis[k].expire_at > now' ]_vars

\* A record outlives the JobTTL that began at its creation.
C11_Witness ==
  /\ Exists(1)
  /\ calls[1] > 0
  /\ now - fromisoformat(Rec(1).created_at) >= JobTTL

----------------------------------------------------------------------------
\* The chunks the vector store holds for job_id.
StoredChunks(job_id) ==
  {c \in chroma : c.source_file = Rec(job_id).file_name}

NonDecreasing(seq) == \A i \in 1..(Len(seq) - 1) : seq[i] <= seq[i + 1]

\* The task of job_id has returned its result and the record is kept.
Succeeded(job_id) ==
  /\ Exited(job_id)
  /\ runlog[job_id][Len(runlog[job_id])] = "ok"
  /\ Exists(job_id)

(* C12: for a single-document job whose task succeeded and whose record is  *)
(* kept, the progress percentages written to the record, in the order of    *)
(* writing, never decrease and end at 100, and metadata.chunks_count is the *)
(* number of chunks handed to the vector store.                             *)
C12_ProgressRisesTo100 ==
  \A j \in 1..nextJob :
    Succeeded(j)
      => /\ NonDecreasing(percents[j])
         /\ percents[j] # <<>>
         /\ percents[j][Len(percents[j])] = 100
         /\ Val(Rec(j).progress).percentage = 100
         /\ Rec(j).metadata # None
         /\ Val(Rec(j).metadata).chunks_count = Cardinality(StoredChunks(j))

C12_Witness ==
  /\ Succeeded(1)
  /\ percents[1] = <<0, 25, 50, 75, 90, 100>>
  /\ Cardinality(StoredChunks(1)) >= 2

----------------------------------------------------------------------------
(* C13: a stored record carries an error only when its status is FAILED or  *)
(* PARTIALLY_COMPLETED: a record that is QUEUED, PROCESSING or COMPLETED    *)
(* has none.                                                                *)
C13_ErrorOnlyOnFailure ==
  \A k \in DOMAIN redis :
    redis[k].value.status \in {QUEUED, PROCESSING, COMPLETED}
      => redis[k].value.error = None

----------------------------------------------------------------------------
(* C14: a stored record, of a single document or of a batch, carries        *)
(* metadata only in a terminal success state: a record that is QUEUED,      *)
(* PROCESSING or FAILED has none.                                           *)
C14_MetadataOnlyOnSuccess ==
  \A k \in DOMAIN redis :
    redis[k].value.status \in {QUEUED, PROCESSING, FAILED}
      => redis[k].value.metadata = None

----------------------------------------------------------------------------
(* C15: once a record has a started_at no later write changes it, and once  *)
(* it has a completed_at no later write changes it: each is written once,   *)
(* whatever later executions and retries do.                                *)
C15_TimestampsWrittenOnce ==
  [][\A k \in DOMAIN redis \cap DOMAIN redis' :
       /\ redis[k].value.started_at # None
            => redis'[k].value.started_at = redis[k].value.started_at
       /\ redis[k].value.completed_at # None
            => redis'[k].value.completed_at = redis[k].value.completed_at]_vars

----------------------------------------------------------------------------
\* The attributes of the stored record that name files of the upload
\* directory.
PathFields == {"file_path", "file_paths"}

(* C16: the Job that get_job returns, for the record of a single document   *)
(* or of a batch in any state, has neither the file_path nor the file_paths *)
(* attribute of the stored record.                                          *)
C16_PathsNotReturned ==
  /\ \A j \in StoreIds :
       get_job(redis, j) # None
         => DOMAIN Val(get_job(redis, j)) \cap PathFields = {}
  /\ (lastCall # None /\ Last.found # None)
       => DOMAIN Val(Last.found) \cap PathFields = {}

\* get_job has returned the Job of a batch whose record names its files.
C16_Witness ==
  /\ lastCall # None
  /\ Last.op = "get_job"
  /\ Last.found # None
  /\ Val(Last.found).is_batch
  /\ Exists(Last.job_id)
  /\ Rec(Last.job_id).file_paths # None
  /\ Val(Rec(Last.job_id).file_paths) # <<>>

----------------------------------------------------------------------------
\* text holds the words of part, in order and next to each other.
Contains(text, part) ==
  \E i \in 0..(Len(text) - Len(part)) :
    \A k \in 1..Len(part) : text[i + k] = part[k]

(* C17: the job-level error of the Job that get_job returns for a           *)
(* single-document job never holds the path of the job's temporary file,    *)
(* whichever stage of the pipeline failed.                                  *)
C17_NoPathInError ==
  \A j \in 1..nextJob :
    (get_job(redis, j) # None /\ Val(get_job(redis, j)).error # None)
      => ~Contains(Val(Val(get_job(redis, j)).error), PathText(PathOf(j)))

----------------------------------------------------------------------------
\* The entries of a batch that are neither pending nor processing.
Settled(batch) ==
  {i \in 1..Len(batch.files) :
     batch.files[i].status \notin {"pending", "processing"}}

(* C18: in every state of a stored batch record, processed_files is the     *)
(* number of entries of batch.files that are neither pending nor            *)
(* processing, and no write lowers processed_files.                         *)
C18_ProcessedFilesCountsSettled ==
  /\ [](\A k \in DOMAIN redis :
          redis[k].value.batch # None
            => Val(redis[k].value.batch).processed_files
                 = Cardinality(Settled(Val(redis[k].value.batch))))
  /\ [][\A k \in DOMAIN redis \cap DOMAIN redis' :
          redis[k].value.batch # None
            => Val(redis'[k].value.batch).processed_files
                 >= Val(redis[k].value.batch).processed_files]_vars

----------------------------------------------------------------------------
\* Two fractions denote the same number.
SameRatio(p, q) == p.num * q.den = q.num * p.den

(* C19: in every state of a stored batch record with at least one file,     *)
(* from its creation onward and after any update, overall_progress is       *)
(* processed_files / total_files * 100.                                     *)
C19_OverallProgressIsDerived ==
  \A k \in DOMAIN redis :
    (redis[k].value.batch # None /\ Val(redis[k].value.batch).total_files > 0)
      => LET batch == Val(redis[k].value.batch)
         IN /\ batch.overall_progress.den # 0
            /\ SameRatio(batch.overall_progress,
                         Percent(batch.processed_files, batch.total_files))

\* A batch of two files with one of them counted as processed.
C19_Witness ==
  /\ Exists(1)
  /\ Rec(1).batch # None
  /\ Val(Rec(1).batch).total_files = 2
  /\ Val(Rec(1).batch).processed_files = 1
  /\ Val(Rec(1).batch).overall_progress = [num |-> 100, den |-> 2]

----------------------------------------------------------------------------
\* The batch task has ended by raising from its outer except clause.
BatchRaised == b.pc = "raised"

(* C20: once an error has escaped the per-file handling of the batch task   *)
(* and the task has ended, the batch record, where it exists, is FAILED     *)
(* and carries an error, and no temporary file of the batch exists.         *)
C20_CatastropheIsHandled ==
  BatchRaised
    => /\ Exists(b.job_id)
            => /\ Rec(b.job_id).status = FAILED
               /\ Rec(b.job_id).error # None
       /\ \A i \in 1..Len(b.files) : b.files[i].path \notin disk

----------------------------------------------------------------------------
\* The errors of a job that cannot be processed at all.
Unrecoverable(job_id) ==
  { JobNotFound(job_id),
    <<"No", "text", "could", "be", "extracted">> }
  \cup {<<"Unsupported", "file", "type", t>> : t \in WiderExtensions}

\* An execution of the task of job_id has ended and the vector store was
\* never called: the first execution failed before that call, while the
\* upload was still there, so the record or the path was absent, no text was
\* extracted, or the type has no extractor.
FailedOutright(job_id) ==
  /\ runlog[job_id] # <<>>
  /\ embedCalls = 0

(* C21: when a single-document job fails because its record or path is     *)
(* absent, because no text is extracted or because its type is unsupported, *)
(* the task is executed once and never queued again, and the record, where  *)
(* it exists, is FAILED with that error as its message.                     *)
C21_UnrecoverableIsNotRetried ==
  \A j \in 1..nextJob :
    FailedOutright(j)
      => /\ Len(runlog[j]) = 1
         /\ \A m \in broker : m.job_id # j
         /\ ~(w.pc # "idle" /\ w.job_id = j)
         /\ Exists(j)
              => /\ Rec(j).status = FAILED
                 /\ Rec(j).error # None
                 /\ Val(Rec(j).error) \in Unrecoverable(j)

\* A job of a type without extractor has failed and its record is kept.
C21_Witness ==
  /\ FailedOutright(1)
  /\ Exists(1)
  /\ Val(Rec(1).error) = <<"Unsupported", "file", "type", "docx">>

----------------------------------------------------------------------------
\* The record of job_id is kept and its status is terminal.
Settles(job_id) == Exists(job_id) /\ Rec(job_id).status \in Terminal

----------------------------------------------------------------------------
(* C23: in every state, the Job that get_job returns for a single-document  *)
(* job whose status is COMPLETED has progress.percentage = 100.             *)
C23_CompletedIsAt100 ==
  \A j \in 1..nextJob :
    LET job == get_job(redis, j)
    IN (job # None /\ ~Val(job).is_batch /\ Val(job).status = COMPLETED)
         => /\ Val(job).progress # None
            /\ Val(Val(job).progress).percentage = 100

----------------------------------------------------------------------------
\* The arguments update_job_status is called with, at time t.
StatusArgs(t) ==
  [status : {PROCESSING, FAILED},
   started_at : {None, Some(t)},
   completed_at : {None, Some(t)},
   error : {None, Some(<<>>), Some(<<"boom">>)},
   metadata : {None, Some([chunks_count |-> 1, text_length |-> 3,
                           processing_time_seconds |-> 0])}]

\* The record of job_id after update_job_status(job_id, **a).
AfterStatus(job_id, a) ==
  update_job_status(redis, now, job_id, a.status, a.started_at,
                    a.completed_at, a.error, a.metadata)
    .db[get_job_key(job_id)].value

(* C24: update_job_status on an existing record sets the status, sets each  *)
(* of started_at, completed_at, error and metadata that the caller passed   *)
(* to the value passed, and leaves every other field as it was.             *)
C24_StatusUpdateFrame ==
  \A j \in StoreIds : \A a \in StatusArgs(now) :
    Exists(j)
      => LET old == Rec(j)
             new == AfterStatus(j, a)
         IN /\ DOMAIN new = DOMAIN old
            /\ new.status = a.status
            /\ new.started_at = IF a.started_at # None
                                THEN isoformat(Val(a.started_at))
                                ELSE old.started_at
            /\ new.completed_at = IF a.completed_at # None
                                  THEN isoformat(Val(a.completed_at))
                                  ELSE old.completed_at
            /\ new.error = IF a.error # None THEN a.error ELSE old.error
            /\ new.metadata = IF a.metadata # None THEN a.metadata
                              ELSE old.metadata
            /\ \A f \in DOMAIN old \ {"status", "started_at", "completed_at",
                                      "error", "metadata"} :
                 new[f] = old[f]

----------------------------------------------------------------------------
\* The arguments update_batch_file_status is called with.
FileStatusArgs ==
  [file_name : BatchNames \cup OtherNames,
   status : {"processing", "completed", "failed"},
   chunks : {0, 1},
   error : {None, Some(<<"boom">>)}]

\* The outcome of update_batch_file_status(job_id, **a) in this state.
AfterFileStatus(job_id, a) ==
  update_batch_file_status(redis, now, job_id, a.file_name, a.status,
                           a.chunks, a.error)

\* Entry new differs from entry old in status, chunks and error at most.
SameButStatus(old, new) ==
  /\ DOMAIN new = DOMAIN old
  /\ \A f \in DOMAIN old \ {"status", "chunks", "error"} : new[f] = old[f]

(* C25: update_batch_file_status on a batch record changes at most one      *)
(* entry, one that carries the name file_name, and of it only the status,   *)
(* chunks and error; current_file changes only when the new status is       *)
(* processing, to file_name; every other entry and field stays as it was.   *)
(* On a record that is not a batch and on an unknown job_id it returns      *)
(* false and the store is as before.                                        *)
C25_FileStatusFrame ==
  \A j \in StoreIds : \A a \in FileStatusArgs :
    LET r == AfterFileStatus(j, a)
    IN IF ~Exists(j) \/ Rec(j).is_batch # Some(TRUE)
       THEN ~r.ret /\ r.db = redis
       ELSE LET old == Rec(j)
                new == r.db[get_job_key(j)].value
                ob == Val(old.batch)
                nb == Val(new.batch)
                changed == {i \in 1..Len(ob.files) : nb.files[i] # ob.files[i]}
            IN /\ r.ret
               /\ DOMAIN r.db = DOMAIN redis
               /\ \A k \in DOMAIN redis \ {get_job_key(j)} : r.db[k] = redis[k]
               /\ DOMAIN new = DOMAIN old
               /\ \A f \in DOMAIN old \ {"batch"} : new[f] = old[f]
               /\ new.batch # None
               /\ DOMAIN nb = DOMAIN ob
               /\ \A f \in DOMAIN ob \ {"files", "current_file"} : nb[f] = ob[f]
               /\ nb.current_file = IF a.status = "processing"
                                    THEN Some(a.file_name) ELSE ob.current_file
               /\ Len(nb.files) = Len(ob.files)
               /\ Cardinality(changed) <= 1
               /\ \A i \in changed :
                    /\ ob.files[i].name = a.file_name
                    /\ SameButStatus(ob.files[i], nb.files[i])

\* A batch of two files of one name, whose first entry a call has completed
\* and left the current file of an earlier call in place.
C25_Witness ==
  /\ lastCall # None
  /\ Last.op = "update_batch_file_status"
  /\ Last.ok
  /\ Exists(Last.job_id)
  /\ LET batch == Val(Rec(Last.job_id).batch)
     IN /\ Len(batch.files) = 2
        /\ batch.files[1].name = batch.files[2].name
        /\ batch.files[1].status = "completed"
        /\ batch.files[2].status = "pending"
        /\ batch.current_file # None

----------------------------------------------------------------------------
\* The chunks the running task stores, and the collection they go to.
HeldDocs ==
  IF w.pc \in {"progress_75", "store", "progress_90"} THEN w.docs
  ELSE IF b.pc = "store" THEN b.docs
  ELSE <<>>
HeldCollection ==
  IF HeldDocs = <<>> THEN <<>> ELSE HeldDocs[1].collection_name

\* A list without its last element, and a list whose last element repeats
\* its first.
ButLast(s) == IF s = <<>> THEN s ELSE SubSeq(s, 1, Len(s) - 1)
LastAsFirst(s) == IF s = <<>> THEN s ELSE [s EXCEPT ![Len(s)] = s[1]]

\* The id lists and metadata lists the validation is tried on: the ones
\* store_in_chroma builds, a shorter one, and ids with a duplicate.
IdLists ==
  LET ids == ChunkIds(HeldDocs, HeldCollection, Len(HeldDocs))
  IN {ids, ButLast(ids), LastAsFirst(ids)}
MetadataLists == {Metadatas(HeldDocs), ButLast(Metadatas(HeldDocs))}

Distinct(ids) == \A i, k \in 1..Len(ids) : ids[i] = ids[k] => i = k

(* C26: collection.add is called only with as many ids and metadata entries *)
(* as documents and with pairwise distinct ids; on a mismatch or a          *)
(* duplicate the validation raises and nothing is added.  The ids that      *)
(* store_in_chroma builds are one per document and distinct.                *)
C26_ValidatedBeforeAdd ==
  /\ \A ids \in IdLists, metadatas \in MetadataLists, failing \in BOOLEAN :
       LET documents == Documents(HeldDocs)
           r == Submit(documents, ids, metadatas, failing, faultKind)
           valid == /\ Len(ids) = Len(documents)
                    /\ Len(metadatas) = Len(documents)
                    /\ Distinct(ids)
       IN /\ r.called => valid
          /\ r.added # {} => r.called
          /\ ~valid => r.raised # None /\ r.added = {} /\ ~r.called
  /\ LET ids == ChunkIds(HeldDocs, HeldCollection, Len(HeldDocs))
     IN Len(ids) = Len(HeldDocs) /\ Distinct(ids)

\* The task has stored two chunks or more.
C26_Witness ==
  /\ w.pc = "progress_90"
  /\ Len(w.docs) >= 2
  /\ Cardinality(chroma) = Len(w.docs)

----------------------------------------------------------------------------
\* The task of job_id has run on its record: it wrote progress to it.
RanOnRecord(job_id) == percents[job_id] # <<>>

(* C27: when process_document_task has run on the record of a job and has   *)
(* exited, and the record is gone (deleted or expired), the job's uploaded  *)
(* file is gone too.                                                        *)
C27_FileRemovedThoughRecordGone ==
  \A j \in 1..nextJob :
    (Exited(j) /\ RanOnRecord(j) /\ ~Exists(j)) => PathOf(j) \notin disk

----------------------------------------------------------------------------
\* The record of job_id was made and is no longer in the store.
Gone(job_id) == job_id <= nextJob /\ ~Exists(job_id)

(* C28: a record that has been deleted or has expired stays absent: no      *)
(* step, the SETEX of an update in flight included, brings it back.         *)
C28_GoneStaysGone ==
  [][\A j \in JobIds : Gone(j) => Gone(j)']_vars

----------------------------------------------------------------------------
\* The moves of the status of a batch file entry.
EntryMoves ==
  {<<"pending", "processing">>, <<"processing", "completed">>,
   <<"processing", "failed">>}

(* C29: in every step of the batch task on a record that stays in the       *)
(* store, each entry of batch.files keeps its status or moves from pending  *)
(* to processing or from processing to completed or failed; a completed or  *)
(* failed entry keeps its status.                                           *)
C29_EntryStatusMoves ==
  [][\A j \in JobIds :
       (Exists(j) /\ Exists(j)' /\ Rec(j).batch # None)
         => \A i \in 1..Len(Val(Rec(j).batch).files) :
              LET old == Val(Rec(j).batch).files[i].status
                  new == Val(Rec(j)'.batch).files[i].status
              IN new = old \/ <<old, new>> \in EntryMoves]_vars

----------------------------------------------------------------------------
(* C30: a record that is COMPLETED and stays in the store stays COMPLETED   *)
(* with the same metadata in every step, those of a second run of           *)
(* process_document_task after a redelivery included.                       *)
C30_RedeliveryKeepsCompleted ==
  [][\A j \in JobIds :
       (Exists(j) /\ Exists(j)' /\ Rec(j).status = COMPLETED)
         => /\ Rec(j)'.status = COMPLETED
            /\ Rec(j)'.metadata = Rec(j).metadata]_vars

============================================================================
